---- MODULE Spec2Model ----
(***************************************************************************)
(* A model of the two browser modules of the site: the i18n module         *)
(* (assets/js/i18n.js) and the contact-form handler.                       *)
(*                                                                         *)
(* JavaScript values are records tagged by their type.  A JS string is a   *)
(* TLA+ string; where the code looks inside a string (toLowerCase, split,  *)
(* trim, a regular expression) the string is a sequence of its pieces and  *)
(* Str joins the pieces.                                                   *)
(***************************************************************************)
EXTENDS Integers, Sequences, FiniteSets, Bags, TLC

VARIABLES
    currentLanguage,   \* i18n.currentLanguage
    translations,      \* i18n.translations: the own properties of the cache object
    storage,           \* localStorage item 'endev_language'
    navigator,         \* navigator.language, navigator.userLanguage
    server,            \* assets/i18n/<lang>.json as served
    pending,           \* bag of fetches in flight, each with its continuation
    phase,             \* where init() stands
    listening,         \* the selector's change listener is attached
    selectorValue,     \* value of #languageSelect
    page,              \* what each tagged element shows
    title,             \* document.title
    docLang,           \* lang attribute of <html>
    fetchCount,        \* fetch() calls issued so far
    lastOp,            \* the handler that ran last, with its argument
    history,           \* what the setLanguage calls and fetches so far were
    env,               \* what the page is served with: DOM anchors, EMAIL_CONFIG,
                       \* the emailjs library, window.i18n
    form,              \* the contact form: UI elements, EmailService, timers, sends
    formOp,            \* the form handler that ran last and what it did
    input,             \* argument of a function applied on its own
    output             \* its result

i18nVars == <<currentLanguage, translations, storage, navigator, server, pending,
              phase, listening, selectorValue, page, title, docLang, fetchCount>>
vars == <<currentLanguage, translations, storage, navigator, server, pending,
          phase, listening, selectorValue, page, title, docLang, fetchCount,
          lastOp, history, env, form, formOp, input, output>>
formVars == <<env, form, formOp>>

----------------------------------------------------------------------------
(* Bounds of the model *)

\* fetch() calls issued in one page session
MaxFetches == 3
\* pieces of a browser locale string
MaxLocaleLen == 4
\* pieces of a translation key
MaxKeyLen == 5

----------------------------------------------------------------------------
(* JavaScript values *)

Undefined == [t |-> "undefined"]
JNull == [t |-> "null"]
JStr(s) == [t |-> "string", s |-> s]
JNum(n) == [t |-> "number", n |-> n]
JObj(p) == [t |-> "object", props |-> p]
JFun(f) == [t |-> "function", name |-> f]

\* ToBoolean, as `if (v)`, `v && ...`, `!v` use it
Truthy(v) ==
    CASE v.t = "undefined" -> FALSE
      [] v.t = "null" -> FALSE
      [] v.t = "string" -> v.s # ""
      [] v.t = "number" -> v.n # 0
      [] OTHER -> TRUE

\* the constructor every value of a type inherits from its prototype
ConstructorOf(v) ==
    CASE v.t = "string" -> JFun("String")
      [] v.t = "number" -> JFun("Number")
      [] v.t = "function" -> JFun("Function")
      [] OTHER -> JFun("Object")

\* v[name] for a v that is neither undefined nor null: own properties first,
\* then the prototype chain
GetProp(v, name) ==
    CASE v.t = "object" /\ name \in DOMAIN v.props -> v.props[name]
      [] v.t = "string" /\ name = "length" -> JNum(Len(v.s))
      [] v.t = "function" /\ name = "length" -> JNum(1)
      [] name = "constructor" -> ConstructorOf(v)
      [] OTHER -> Undefined

NumStr(n) == IF n \in 0..9 THEN <<"0","1","2","3","4","5","6","7","8","9">>[n + 1] ELSE "NaN"

\* ToString, as the assignment to textContent, title or an attribute applies it
ToJSString(v) ==
    CASE v.t = "string" -> v.s
      [] v.t = "number" -> NumStr(v.n)
      [] v.t = "object" -> "[object Object]"
      [] v.t = "function" -> "function " \o v.name \o "() { [native code] }"
      [] OTHER -> v.t

RECURSIVE Str(_)
\* the string whose pieces are s
Str(s) == IF s = <<>> THEN "" ELSE Head(s) \o Str(Tail(s))

RECURSIVE IndexOf(_, _)
\* Array.prototype.indexOf, 0-based, -1 when absent
IndexOf(arr, x) ==
    IF arr = <<>> THEN -1
    ELSE IF Head(arr) = x THEN 0
    ELSE LET r == IndexOf(Tail(arr), x) IN IF r = -1 THEN -1 ELSE r + 1

RECURSIVE Split(_, _)
\* String.prototype.split(sep) for a one-piece separator: the pieces between
\* the separators, always at least one
Split(s, sep) ==
    IF s = <<>> THEN << <<>> >>
    ELSE IF Head(s) = sep THEN << <<>> >> \o Split(Tail(s), sep)
    ELSE LET r == Split(Tail(s), sep) IN << <<Head(s)>> \o r[1] >> \o Tail(r)

\* all sequences over S of length at most n
SeqsUpTo(S, n) == UNION {[1..k -> S] : k \in 0..n}

----------------------------------------------------------------------------
(* i18n: constants of the module object *)

availableLanguages == <<"en", "es", "fr", "de", "pt">>
defaultLanguage == "en"

Languages == {availableLanguages[i] : i \in DOMAIN availableLanguages}

\* availableLanguages.indexOf(lang) !== -1
isAvailable(lang) == IndexOf(availableLanguages, lang) # -1

----------------------------------------------------------------------------
(* i18n.detectLanguage *)

\* String.prototype.toLowerCase on the pieces the model's locales are made of
LowerPiece(c) ==
    CASE c = "D" -> "d" [] c = "E" -> "e" [] c = "F" -> "f" [] c = "R" -> "r"
      [] OTHER -> c

toLowerCase(s) == [i \in DOMAIN s |-> LowerPiece(s[i])]

\* navigator.language || navigator.userLanguage || 'en'
\* (an absent property and the empty string are both falsy: both are <<>>)
browserLocale(nav) ==
    IF nav.language # <<>> THEN nav.language
    ELSE IF nav.userLanguage # <<>> THEN nav.userLanguage
    ELSE <<"e", "n">>

\* mutant: the browser's locale is consulted before the stored preference
detectLanguage_BrowserFirst(store, nav) ==
    LET langCode == Str(Split(toLowerCase(browserLocale(nav)), "-")[1])
    IN  IF isAvailable(langCode) THEN langCode
        ELSE IF Truthy(store) /\ isAvailable(store.s) THEN store.s
        ELSE defaultLanguage

\* mutant: the browser's language code is used without the indexOf check
detectLanguage_Unchecked(store, nav) ==
    LET savedLang == store
    IN  IF Truthy(savedLang) /\ isAvailable(savedLang.s) THEN savedLang.s
        ELSE Str(Split(toLowerCase(browserLocale(nav)), "-")[1])

detectLanguage(store, nav) ==
    LET savedLang == store
    IN  IF Truthy(savedLang) /\ isAvailable(savedLang.s) THEN savedLang.s
        ELSE LET browserLang == toLowerCase(browserLocale(nav))
                 langCode == Str(Split(browserLang, "-")[1])
             IN  IF isAvailable(langCode) THEN langCode ELSE defaultLanguage

----------------------------------------------------------------------------
(* i18n.translate *)

RECURSIVE walk(_, _, _, _)
\* the loop of translate: value after keys[i..], or the key when a step fails
walk(value, keys, i, key) ==
    IF i > Len(keys) THEN value
    ELSE IF Truthy(value) /\ Truthy(GetProp(value, keys[i]))
         THEN walk(GetProp(value, keys[i]), keys, i + 1, key)
         ELSE JStr(key)

\* translate(key) with this.translations = trans, this.currentLanguage = cur;
\* key is given by its pieces
translate(trans, cur, key) ==
    LET parts == Split(key, ".")
        keys == [i \in DOMAIN parts |-> Str(parts[i])]
    IN  walk(GetProp(JObj(trans), cur), keys, 1, Str(key))

----------------------------------------------------------------------------
(* The page and the translation files: the DOM contract and the site's     *)
(* assets, which the modules read.                                         *)

\* the elements carrying data-i18n: the key (by its pieces) and how the
\* element takes a string: "text" (textContent), "placeholder" (an input or
\* textarea with a placeholder), "input" (an input or textarea without one)
Elements ==
    { [key |-> <<"nav", ".", "home">>, kind |-> "text"],
      [key |-> <<"contact", ".", "name">>, kind |-> "placeholder"],
      [key |-> <<"contact", ".", "send">>, kind |-> "input"],
      [key |-> <<"footer", ".", "note">>, kind |-> "text"] }

\* what an element shows before any translation is applied
OriginalText == "(html)"

\* a translation file with every key of the page
FullDictionary(lang) ==
    JObj([meta |-> JObj([title |-> JStr(lang \o ":title")]),
          nav |-> JObj([home |-> JStr(lang \o ":home")]),
          contact |-> JObj([name |-> JStr(lang \o ":name"),
                            send |-> JStr(lang \o ":send")]),
          footer |-> JObj([note |-> JStr(lang \o ":note")])])

\* a translation file that lacks the title and the footer
PartialDictionary(lang) ==
    JObj([nav |-> JObj([home |-> JStr(lang \o ":home")]),
          contact |-> JObj([name |-> JStr(lang \o ":name"),
                            send |-> JStr(lang \o ":send")])])

\* the files a site may serve, one per language code
Servers ==
    { [l \in Languages |-> FullDictionary(l)],
      [l \in Languages |-> PartialDictionary(l)] }

\* localStorage.getItem('endev_language') at page load
StoredValues == {JNull, JStr("fr"), JStr("ja")}

\* navigator at page load
Navigators ==
    { [language |-> <<"d", "e", "-", "D", "E">>, userLanguage |-> <<>>],
      [language |-> <<"j", "a", "-", "J", "P">>, userLanguage |-> <<>>] }

\* the codes a caller or the selector may hand to setLanguage
RequestedCodes == {"es", "en", "ja"}

----------------------------------------------------------------------------
(* What the page is served with, and the contact form before its script    *)
(* has run                                                                 *)

FieldNames == {"name", "email", "subject", "message"}

\* the .validate element next to a field
ValidateDiv(field) == "validate_" \o field

\* the elements the two scripts look up: #languageSelect, #contactForm, and
\* inside the form the four fields with their .validate elements, the submit
\* button, .loading, .error-message and .sent-message
Anchors ==
    {"languageSelect", "contactForm", "submitButton", "loading", "errorMessage",
     "successMessage"}
        \cup FieldNames \cup {ValidateDiv(f) : f \in FieldNames}

\* EMAIL_CONFIG as the source has it
EMAIL_CONFIG ==
    [serviceID |-> "artesanous", templateID |-> "endev001",
     publicKey |-> "LrvW_eq15TU-SfpRs"]

\* a page with every anchor, the configuration of the source, the emailjs
\* library loaded and window.i18n defined
ContractEnv ==
    [dom |-> Anchors, config |-> EMAIL_CONFIG, emailjs |-> "loaded", i18n |-> TRUE]

\* the form as the page is parsed: fields empty, nothing shown, the submit
\* button enabled, EmailService.initialized false, no listener attached
FormParsed ==
    [active |-> FALSE,
     initialized |-> FALSE,
     fields |-> [f \in FieldNames |-> <<>>],
     fieldErrors |-> [f \in FieldNames |-> [text |-> "", shown |-> FALSE, invalid |-> FALSE]],
     loading |-> FALSE,
     disabled |-> FALSE,
     errorMessage |-> [text |-> "", shown |-> FALSE],
     successMessage |-> [text |-> "", shown |-> FALSE],
     timers |-> <<>>,
     sends |-> <<>>,
     submits |-> 0]

NoFormOp == [op |-> "script", arg |-> "", threw |-> FALSE, sent |-> <<>>]

\* the contact form on a page of ContractEnv, before its script has run
FormIdle == env = ContractEnv /\ form = FormParsed /\ formOp = NoFormOp

----------------------------------------------------------------------------
(* The i18n module's state as one record, so that a handler is a function  *)
(* from state to state and handlers compose as the code calls them.        *)

State ==
    [cur |-> currentLanguage, trans |-> translations, store |-> storage,
     pend |-> pending, phase |-> phase, listening |-> listening,
     sel |-> selectorValue, page |-> page, title |-> title,
     docLang |-> docLang, fetches |-> fetchCount, log |-> <<>>]

\* one thing a handler did, as lastOp.log records it: a call of loadLanguage,
\* a fetch issued, a promise of loadLanguage resolved (with its value) or
\* rejected, a run of applyTranslations (with the dictionary it read)
Event(ev, lang, value) == [ev |-> ev, lang |-> lang, value |-> value]
Logged(s, ev, lang, value) == [s EXCEPT !.log = Append(@, Event(ev, lang, value))]

\* the handler op(arg) ran and left the state s.  history keeps the code of
\* the last setLanguage call, whether every code so far was a supported one,
\* whether every fetch so far succeeded, whether every change event so far
\* found the listener attached, and the language the last applyTranslations
\* read the dictionary of
Becomes(s, op, arg, cont) ==
    /\ s.fetches <= MaxFetches
    /\ currentLanguage' = s.cur
    /\ translations' = s.trans
    /\ storage' = s.store
    /\ pending' = s.pend
    /\ phase' = s.phase
    /\ listening' = s.listening
    /\ selectorValue' = s.sel
    /\ page' = s.page
    /\ title' = s.title
    /\ docLang' = s.docLang
    /\ fetchCount' = s.fetches
    /\ lastOp' = [op |-> op, arg |-> arg, cont |-> cont, log |-> s.log]
    /\ history' =
          LET applies == SelectSeq(s.log, LAMBDA e : e.ev = "apply")
              h == IF op = "setLanguage" \/ (op = "change" /\ listening)
                   THEN [history EXCEPT !.selected = arg, !.supported = @ /\ isAvailable(arg)]
                   ELSE IF op = "change" THEN [history EXCEPT !.heard = FALSE]
                   ELSE IF op = "rejected" THEN [history EXCEPT !.succeeded = FALSE]
                   ELSE history
          IN  IF applies = <<>> THEN h
              ELSE [h EXCEPT !.applied = applies[Len(applies)].lang]
    /\ UNCHANGED <<navigator, server, formVars, input, output>>

\* i18n.applyTranslations
applyTranslations(s) ==
    LET pageTitle == translate(s.trans, s.cur, <<"meta", ".", "title">>)
        shown(e) ==
            IF e.kind = "input" THEN s.page[e]
            ELSE ToJSString(translate(s.trans, s.cur, e.key))
    IN  [Logged(s, "apply", s.cur, GetProp(JObj(s.trans), s.cur))
            EXCEPT !.title = IF Truthy(pageTitle) THEN ToJSString(pageTitle) ELSE @,
                   !.docLang = s.cur,
                   !.page = [e \in Elements |-> shown(e)]]

\* i18n.updateLanguageSelector: if (selector) selector.value = currentLanguage
updateLanguageSelector(s) ==
    IF "languageSelect" \in env.dom THEN [s EXCEPT !.sel = s.cur] ELSE s

\* i18n.setupEventListeners: if (selector) selector.addEventListener('change', ...)
setupEventListeners(s) ==
    IF "languageSelect" \in env.dom THEN [s EXCEPT !.listening = TRUE] ELSE s

\* mutant: the cache is never consulted
isCached_Never(s, lang) == FALSE

\* whether loadLanguage finds lang in the cache: if (this.translations[lang])
isCached(s, lang) == Truthy(GetProp(JObj(s.trans), lang))

RECURSIVE loadLanguage(_, _, _)

\* the callback passed to then() of loadLanguage(...), by the caller cont
onLoaded(s, cont) ==
    CASE cont = "init" ->
            [setupEventListeners(updateLanguageSelector(applyTranslations(s)))
                EXCEPT !.phase = "ready"]
      [] cont = "fallback" -> [applyTranslations(s) EXCEPT !.phase = "fallbackReady"]
      [] cont = "setLanguage" -> updateLanguageSelector(applyTranslations(s))

\* the callback passed to catch(), where there is one
onFailed(s, cont) ==
    CASE cont = "init" -> loadLanguage(s, defaultLanguage, "fallback")
      [] cont = "fallback" -> [s EXCEPT !.phase = "failed"]
      [] cont = "setLanguage" -> s

\* i18n.loadLanguage(lang) followed by the caller's then(): a cached language
\* resolves at once and the callback runs in the same turn of the event loop;
\* otherwise a fetch is issued and the callback waits for it
loadLanguage(s, lang, cont) ==
    IF isCached(s, lang)
    THEN onLoaded(Logged(Logged(s, "call", lang, Undefined),
                         "resolve", lang, GetProp(JObj(s.trans), lang)), cont)
    ELSE [Logged(Logged(s, "call", lang, Undefined), "fetch", lang, Undefined)
             EXCEPT !.pend = @ (+) SetToBag({[lang |-> lang, cont |-> cont]}),
                   !.fetches = @ + 1,
                   !.phase = CASE cont = "init" -> "loading"
                               [] cont = "fallback" -> "fallbackLoading"
                               [] OTHER -> @]

\* the fetch of f answers 200 with the JSON document data
fetchResolved(s, f, data) ==
    onLoaded([Logged(s, "resolve", f.lang, data)
                 EXCEPT !.pend = @ (-) SetToBag({f}),
                        !.trans = (f.lang :> data) @@ @], f.cont)

\* the fetch of f fails: network error, non-OK status or unparsable body
fetchRejected(s, f) ==
    onFailed([Logged(s, "reject", f.lang, Undefined)
                 EXCEPT !.pend = @ (-) SetToBag({f})], f.cont)

\* i18n.init
init(s) ==
    LET detectedLang == detectLanguage(s.store, navigator)
    IN  loadLanguage([s EXCEPT !.cur = detectedLang], detectedLang, "init")

\* mutant: setLanguage without its early return
setLanguage_Unchecked(s, lang) ==
    loadLanguage([s EXCEPT !.cur = lang, !.store = JStr(lang)], lang, "setLanguage")

\* mutant: the choice is not written to localStorage
setLanguage_NotStored(s, lang) ==
    IF ~isAvailable(lang) THEN s
    ELSE loadLanguage([s EXCEPT !.cur = lang], lang, "setLanguage")

\* i18n.setLanguage
setLanguage(s, lang) ==
    IF ~isAvailable(lang) THEN s
    ELSE loadLanguage([s EXCEPT !.cur = lang, !.store = JStr(lang)],
                      lang, "setLanguage")

----------------------------------------------------------------------------
(* The i18n module as a state machine *)

NoCall == [fn |-> "none"]

\* the page before any handler has run
Untouched ==
    /\ pending = EmptyBag
    /\ phase = "constructed"
    /\ listening = FALSE
    /\ selectorValue = "en"
    /\ page = [e \in Elements |-> OriginalText]
    /\ title = OriginalText
    /\ docLang = "en"
    /\ fetchCount = 0
    /\ lastOp = [op |-> "script", arg |-> "", cont |-> "", log |-> <<>>]
    /\ history = [selected |-> "", supported |-> TRUE, succeeded |-> TRUE,
                  heard |-> TRUE, applied |-> ""]

\* the module object as the script builds it, before init() runs
Constructed ==
    /\ currentLanguage = "en"
    /\ translations = <<>>
    /\ Untouched

\* the page with and without #languageSelect
SelectorEnvs == {ContractEnv, [ContractEnv EXCEPT !.dom = Anchors \ {"languageSelect"}]}

Init ==
    /\ Constructed
    /\ env \in SelectorEnvs
    /\ form = FormParsed
    /\ formOp = NoFormOp
    /\ storage \in StoredValues
    /\ navigator \in Navigators
    /\ server \in Servers
    /\ input = NoCall
    /\ output = NoCall

\* DOMContentLoaded (or the script's own run): i18n.init()
PageLoad ==
    /\ phase = "constructed"
    /\ Becomes(init(State), "init", "", "")

\* a call of window.i18n.setLanguage(lang)
CallSetLanguage(lang) ==
    /\ lang \in RequestedCodes
    /\ Becomes(setLanguage(State, lang), "setLanguage", lang, "")

\* the user picks lang in #languageSelect: a change event, and the change
\* listener runs when setupEventListeners attached it
SelectorChange(lang) ==
    /\ "languageSelect" \in env.dom
    /\ LET picked == [State EXCEPT !.sel = lang]
       IN  Becomes(IF listening THEN setLanguage(picked, lang) ELSE picked,
                   "change", lang, "")

\* a fetch in flight succeeds
FetchResolves(f) ==
    /\ BagIn(f, pending)
    /\ Becomes(fetchResolved(State, f, server[f.lang]), "resolved", f.lang, f.cont)

\* a fetch in flight fails
FetchRejects(f) ==
    /\ BagIn(f, pending)
    /\ Becomes(fetchRejected(State, f), "rejected", f.lang, f.cont)

Conts == {"init", "fallback", "setLanguage"}
Fetches == [lang : Languages, cont : Conts]

Next ==
    \/ PageLoad
    \/ \E lang \in RequestedCodes : CallSetLanguage(lang)
    \/ \E lang \in RequestedCodes : SelectorChange(lang)
    \/ \E f \in Fetches : FetchResolves(f)
    \/ \E f \in Fetches : FetchRejects(f)

Spec == Init /\ [][Next]_vars

----------------------------------------------------------------------------
(* Properties of the i18n state machine (Spec) *)

SupportedSet == {"en", "es", "fr", "de", "pt"}

\* the segments of a key given by its pieces
Segments(key) == LET parts == Split(key, ".") IN [i \in DOMAIN parts |-> Str(parts[i])]

RECURSIVE OwnPath(_, _)
\* what a dictionary tree holds at a path of segments, own properties only;
\* Undefined when a segment is missing
OwnPath(v, segs) ==
    IF segs = <<>> THEN v
    ELSE IF v.t = "object" /\ Head(segs) \in DOMAIN v.props
         THEN OwnPath(v.props[Head(segs)], Tail(segs))
         ELSE Undefined

\* C1: in every reachable state the active language code is one of
\* en, es, fr, de, pt
C1_ActiveLanguageSupported == currentLanguage \in SupportedSet

\* C1 witness: the stored value and the browser locale were unsupported,
\* init failed on both loads, a switch to es took place and a switch to ja
\* was then asked for
C1_Witness ==
    /\ lastOp.op = "setLanguage" /\ lastOp.arg = "ja"
    /\ navigator.language = <<"j", "a", "-", "J", "P">>
    /\ phase = "failed"
    /\ currentLanguage = "es"

\* C3: a setLanguage with a code outside the supported set, called directly
\* or by the selector's listener, leaves the active language, the cache and
\* the stored preference as they were, issues no fetch and does not run
\* applyTranslations
C3_UnsupportedRejected ==
    [][ (lastOp'.op \in {"setLanguage", "change"} /\ lastOp'.arg \notin SupportedSet)
        => /\ UNCHANGED <<currentLanguage, translations, storage, pending, fetchCount>>
           /\ UNCHANGED <<page, title, docLang, phase, listening>>
           /\ lastOp'.log = <<>> ]_vars

\* C3 witness: the selector's listener was handed ja while es was active,
\* stored and cached
C3_Witness ==
    /\ lastOp.op = "change" /\ lastOp.arg = "ja"
    /\ currentLanguage = "es" /\ storage = JStr("es")
    /\ "es" \in DOMAIN translations

\* the step just taken completed init's fallback load of the default language
FallbackJustLoaded ==
    /\ phase = "fallbackReady"
    /\ \/ lastOp.op = "resolved" /\ lastOp.cont = "fallback"
       \/ lastOp.op = "rejected" /\ lastOp.cont = "init"

\* C4: when init's load of the detected language has failed and the load of
\* the default language has succeeded, every tagged element that takes a
\* string and whose key the default dictionary holds shows that dictionary's
\* string
C4_FallbackShowsDefault ==
    FallbackJustLoaded =>
        \A e \in Elements :
            LET leaf == OwnPath(server[defaultLanguage], Segments(e.key))
            IN  (e.kind # "input" /\ leaf.t = "string") => page[e] = leaf.s

\* C7: a call of loadLanguage(lang) issues a fetch exactly when lang has no
\* cache entry; a cached language resolves with the cached dictionary and no
\* fetch; a successful fetch stores the document under lang and resolves with
\* it; a failed fetch rejects and leaves the cache as it was; no other step
\* writes the cache and no entry is ever removed or replaced
C7_LoadLanguage ==
    [][ LET log == lastOp'.log
            calls == {i \in DOMAIN log : log[i].ev = "call"}
            issued == {i \in DOMAIN log : log[i].ev = "fetch"}
            settled == IF lastOp'.op \in {"resolved", "rejected"} THEN 1 ELSE 0
        IN  /\ \A i \in calls :
                  LET l == log[i].lang
                  IN  /\ i + 1 \in DOMAIN log
                      /\ IF l \in DOMAIN translations
                         THEN /\ log[i + 1] = Event("resolve", l, translations[l])
                              /\ issued = {}
                              /\ fetchCount' = fetchCount
                              /\ BagCardinality(pending') = BagCardinality(pending) - settled
                         ELSE /\ log[i + 1] = Event("fetch", l, Undefined)
                              /\ issued = {i + 1}
                              /\ fetchCount' = fetchCount + 1
                              /\ \E c \in Conts : BagIn([lang |-> l, cont |-> c], pending')
                              /\ BagCardinality(pending') = BagCardinality(pending) - settled + 1
            /\ calls = {} => (issued = {} /\ fetchCount' = fetchCount)
            /\ lastOp'.op = "resolved"
                  => /\ translations' = (lastOp'.arg :> server[lastOp'.arg]) @@ translations
                     /\ log[1] = Event("resolve", lastOp'.arg, server[lastOp'.arg])
            /\ lastOp'.op = "rejected"
                  => log[1] = Event("reject", lastOp'.arg, Undefined)
            /\ lastOp'.op # "resolved" => translations' = translations
            /\ \A l \in DOMAIN translations :
                  l \in DOMAIN translations' /\ translations'[l] = translations[l] ]_vars

\* C7 witness: after a failed fetch, a language already cached was loaded
\* again: resolved from the cache, no fetch issued
C7_Witness ==
    /\ lastOp.op \in {"setLanguage", "change"}
    /\ Len(lastOp.log) >= 2
    /\ lastOp.log[2].ev = "resolve"
    /\ phase \in {"fallbackLoading", "fallbackReady", "failed"}
    /\ pending # EmptyBag

\* every setLanguage call so far carried a supported code, every fetch so far
\* succeeded, every change event reached the listener, and no fetch is
\* outstanding
Settled ==
    /\ history.selected # ""
    /\ history.supported /\ history.succeeded /\ history.heard
    /\ pending = EmptyBag

\* C18: after setLanguage calls with supported codes whose fetches all
\* succeeded, in whatever order, once no fetch is outstanding the active
\* language, the stored preference, the selector's value (where the page has
\* a selector) and the language of the dictionary the last applyTranslations
\* read are the code of the last call, and that dictionary is cached
C18_LastSelectionWins ==
    Settled =>
        /\ currentLanguage = history.selected
        /\ storage = JStr(history.selected)
        /\ "languageSelect" \in env.dom => selectorValue = history.selected
        /\ history.applied = history.selected
        /\ history.selected \in DOMAIN translations
        /\ docLang = history.selected

\* C18 witness: es was selected, then en; the fetch of en completed first and
\* the fetch of es last
C18_Witness ==
    /\ Settled
    /\ history.selected = "en"
    /\ lastOp.op = "resolved" /\ lastOp.arg = "es" /\ lastOp.cont = "setLanguage"
    /\ fetchCount >= 2

\* C19: whenever applyTranslations runs, the cache holds a dictionary for
\* the language active at that moment
C19_ApplyHasDictionary ==
    \A i \in DOMAIN lastOp.log :
        lastOp.log[i].ev = "apply" => Truthy(lastOp.log[i].value)

\* C20: once init has finished, by its normal path or by its fallback, a
\* change event of the selector with a supported code makes that code the
\* active language and the stored preference
C20_ChangeSwitchesLanguage ==
    [][ (/\ phase \in {"ready", "fallbackReady"}
         /\ lastOp'.op = "change"
         /\ lastOp'.arg \in SupportedSet)
            => /\ currentLanguage' = lastOp'.arg
               /\ storage' = JStr(lastOp'.arg) ]_vars

----------------------------------------------------------------------------
(* detectLanguage applied on its own (SpecDetect): every stored value and   *)
(* every browser locale of the bounded sets                                 *)

LocalePieces == {"d", "e", "E", "-", "_"}

DetectStoredValues == {JNull, JStr(""), JStr("fr"), JStr("FR"), JStr("ja")}

DetectNavigators ==
    [language : SeqsUpTo(LocalePieces, MaxLocaleLen),
     userLanguage : {<<>>, <<"F", "R", "-", "F", "R">>}]

InitDetect ==
    /\ Constructed
    /\ FormIdle
    /\ storage \in DetectStoredValues
    /\ navigator \in DetectNavigators
    /\ server = [l \in Languages |-> FullDictionary(l)]
    /\ input = [fn |-> "detectLanguage"]
    /\ output = NoCall

CallDetectLanguage ==
    /\ output = NoCall
    /\ output' = [fn |-> "detectLanguage", value |-> detectLanguage(storage, navigator)]
    /\ UNCHANGED <<i18nVars, lastOp, history, formVars, input>>

NextDetect == CallDetectLanguage

SpecDetect == InitDetect /\ [][NextDetect]_vars

\* the part of a locale before its first "-"
PrimarySubtag(locale) ==
    LET dashes == {i \in DOMAIN locale : locale[i] = "-"}
    IN  IF dashes = {} THEN locale
        ELSE SubSeq(locale, 1, (CHOOSE i \in dashes : \A j \in dashes : i <= j) - 1)

\* the code the claim names for a stored value and a navigator
C2_Expected(store, nav) ==
    IF store.t = "string" /\ store.s \in SupportedSet THEN store.s
    ELSE LET locale == IF nav.language # <<>> THEN nav.language ELSE nav.userLanguage
             primary == Str(toLowerCase(PrimarySubtag(locale)))
         IN  IF primary \in SupportedSet THEN primary ELSE "en"

\* C2: detectLanguage returns the stored code when it is supported, whatever
\* the browser locale; otherwise the lower-cased part of the browser locale
\* before its first '-' when that is supported; otherwise 'en'; and the call
\* issues no fetch and leaves the storage as it was
C2_DetectLanguage ==
    [][ output'.fn = "detectLanguage"
        => /\ output'.value = C2_Expected(storage, navigator)
           /\ UNCHANGED <<storage, pending, fetchCount, translations>> ]_vars

\* C2 witness: fr is stored and the browser reports de-E: fr is returned
C2_Witness ==
    /\ output.fn = "detectLanguage"
    /\ storage = JStr("fr")
    /\ navigator.language = <<"d", "e", "-", "E">>
    /\ output.value = "fr"

----------------------------------------------------------------------------
(* translate applied on its own (SpecTranslate): every key of the bounded   *)
(* set against every state of the cache                                     *)

KeyPieces == {"a", "b", ".", "length", "constructor"}

\* { a: { b: 'text', a: '' }, b: 'B' }
SampleDictionary ==
    JObj([a |-> JObj([b |-> JStr("text"), a |-> JStr("")]), b |-> JStr("B")])

Caches ==
    { <<>>,
      [en |-> SampleDictionary],
      [fr |-> SampleDictionary],
      [en |-> SampleDictionary, fr |-> JObj(<<>>)] }

InitTranslate ==
    /\ Untouched
    /\ FormIdle
    /\ currentLanguage \in {"en", "fr"}
    /\ translations \in Caches
    /\ storage = JNull
    /\ navigator = [language |-> <<>>, userLanguage |-> <<>>]
    /\ server = [l \in Languages |-> FullDictionary(l)]
    /\ input \in [fn : {"translate"}, key : SeqsUpTo(KeyPieces, MaxKeyLen)]
    /\ output = NoCall

CallTranslate ==
    /\ output = NoCall
    /\ output' = [fn |-> "translate",
                  value |-> translate(translations, currentLanguage, input.key)]
    /\ UNCHANGED <<i18nVars, lastOp, history, formVars, input>>

NextTranslate == CallTranslate

SpecTranslate == InitTranslate /\ [][NextTranslate]_vars

\* the active language's dictionary, Undefined when none is loaded
ActiveDictionary ==
    IF currentLanguage \in DOMAIN translations THEN translations[currentLanguage]
    ELSE Undefined

\* C5: when a segment of the key is missing from the active language's
\* dictionary (or no dictionary is loaded), translate returns the key string
\* itself, and it changes neither the cache nor the active language
C5_MissingKeyReturnsKey ==
    [][ output'.fn = "translate"
        => /\ OwnPath(ActiveDictionary, Segments(input.key)) = Undefined
                 => output'.value = JStr(Str(input.key))
           /\ UNCHANGED <<translations, currentLanguage>> ]_vars

\* C6: translate always returns a string, which is the leaf string at the
\* key's path or the key itself; never a subtree of the dictionary
C6_TranslateReturnsString ==
    output.fn = "translate"
        => /\ output.value.t = "string"
           /\ \/ output.value = JStr(Str(input.key))
              \/ output.value = OwnPath(ActiveDictionary, Segments(input.key))

----------------------------------------------------------------------------
(* Contact form: field validation *)

\* a field value the code looks inside: a string given by its characters
JChars(c) == [t |-> "string", chars |-> c]

\* !value, for a value that is undefined or a string
Not(value) == value.t = "undefined" \/ value.chars = <<>>

\* the characters \s matches and trim() strips, among those of the model
IsWhitespace(c) == c \in {" ", "\t"}

RECURSIVE trimStart(_)
trimStart(c) == IF c # <<>> /\ IsWhitespace(Head(c)) THEN trimStart(Tail(c)) ELSE c

RECURSIVE trimEnd(_)
trimEnd(c) ==
    IF c # <<>> /\ IsWhitespace(c[Len(c)]) THEN trimEnd(SubSeq(c, 1, Len(c) - 1)) ELSE c

\* mutant: only leading whitespace is stripped
trim_StartOnly(c) == trimStart(c)

\* String.prototype.trim
trim(c) == trimEnd(trimStart(c))

\* [^\s@]
NotSpaceNorAt(c) == ~IsWhitespace(c) /\ c # "@"

\* /^[^\s@]+@[^\s@]+\.[^\s@]+$/ as an automaton: the states reached from q
\* by the character c.  0: start, 1: in the local part, 2: after '@',
\* 3: in the domain, 4: after a '.' of the domain, 5: after that '.' and at
\* least one more character (accepting)
emailRegexStep(q, c) ==
    CASE q = 0 -> IF NotSpaceNorAt(c) THEN {1} ELSE {}
      [] q = 1 -> IF NotSpaceNorAt(c) THEN {1} ELSE IF c = "@" THEN {2} ELSE {}
      [] q = 2 -> IF NotSpaceNorAt(c) THEN {3} ELSE {}
      [] q = 3 -> IF ~NotSpaceNorAt(c) THEN {} ELSE IF c = "." THEN {3, 4} ELSE {3}
      [] q = 4 -> IF NotSpaceNorAt(c) THEN {5} ELSE {}
      [] q = 5 -> IF NotSpaceNorAt(c) THEN {5} ELSE {}

RECURSIVE emailRegexRun(_, _)
emailRegexRun(qs, c) ==
    IF c = <<>> THEN qs
    ELSE emailRegexRun(UNION {emailRegexStep(q, Head(c)) : q \in qs}, Tail(c))

\* mutant: the pattern without its last '+' part, /^[^\s@]+@[^\s@]+\.[^\s@]*$/
emailRegexTest_NoTld(c) == emailRegexRun({0}, c) \cap {4, 5} # {}

\* emailRegex.test(value)
emailRegexTest(c) == 5 \in emailRegexRun({0}, c)

\* validators.name, validators.email, validators.subject, validators.message
validators_name(value) ==
    IF Not(value) \/ Len(trim(value.chars)) < 4
    THEN JStr("Please enter at least 4 characters") ELSE JNull

validators_email(value) ==
    IF Not(value) \/ ~emailRegexTest(value.chars)
    THEN JStr("Please enter a valid email address") ELSE JNull

validators_subject(value) ==
    IF Not(value) \/ Len(trim(value.chars)) < 4
    THEN JStr("Please enter at least 4 characters") ELSE JNull

validators_message(value) ==
    IF Not(value) \/ Len(trim(value.chars)) < 10
    THEN JStr("Please write at least 10 characters") ELSE JNull

\* Object.keys(validators)
validatorKeys == <<"name", "email", "subject", "message">>

\* validateField(fieldName, value)
validateField(fieldName, value) ==
    CASE fieldName = "name" -> validators_name(value)
      [] fieldName = "email" -> validators_email(value)
      [] fieldName = "subject" -> validators_subject(value)
      [] fieldName = "message" -> validators_message(value)
      [] OTHER -> JNull

RECURSIVE validateFormFrom(_, _, _)
\* the forEach of validateForm over the fields still to visit
validateFormFrom(fields, formData, result) ==
    IF fields = <<>> THEN result
    ELSE LET field == Head(fields)
             error == validateField(field, formData[field])
         IN  validateFormFrom(Tail(fields), formData,
                 IF Truthy(error)
                 THEN [isValid |-> FALSE, errors |-> (field :> error) @@ result.errors]
                 ELSE result)

\* mutant: validation stops at the first failing field
validateForm_FirstError(formData) ==
    LET failing == SelectSeq(validatorKeys,
                       LAMBDA f : Truthy(validateField(f, formData[f])))
    IN  IF failing = <<>> THEN [isValid |-> TRUE, errors |-> <<>>]
        ELSE [isValid |-> FALSE,
              errors |-> (failing[1] :> validateField(failing[1], formData[failing[1]]))]

\* validateForm(formData)
validateForm(formData) ==
    validateFormFrom(validatorKeys, formData, [isValid |-> TRUE, errors |-> <<>>])

----------------------------------------------------------------------------
(* The validators applied on their own (SpecValidators) *)

\* longest field value tried against the length rules
MaxValueLen == 12
\* longest field value tried against the email pattern
MaxEmailLen == 6

\* 'a@b.co', 'a@b', 'a.com'
ExampleEmails ==
    { <<"a", "@", "b", ".", "c", "o">>, <<"a", "@", "b">>, <<"a", ".", "c", "o", "m">> }

FieldValues ==
    {Undefined} \cup
    { JChars(c) : c \in SeqsUpTo({"a", " "}, MaxValueLen)
                        \cup SeqsUpTo({"a", "@", ".", " "}, MaxEmailLen)
                        \cup ExampleEmails }

InitValidators ==
    /\ Constructed
    /\ FormIdle
    /\ storage = JNull
    /\ navigator = [language |-> <<>>, userLanguage |-> <<>>]
    /\ server = [l \in Languages |-> FullDictionary(l)]
    /\ input \in [fn : {"validateField"}, value : FieldValues]
    /\ output = NoCall

CallValidator(fieldName) ==
    /\ output = NoCall
    /\ output' = [fn |-> fieldName, value |-> validateField(fieldName, input.value)]
    /\ UNCHANGED <<i18nVars, lastOp, history, formVars, input>>

NextValidators ==
    \E fieldName \in {"name", "email", "subject", "message"} : CallValidator(fieldName)

SpecValidators == InitValidators /\ [][NextValidators]_vars

\* the length of a value once the whitespace at its ends is dropped: from its
\* first to its last character that is not whitespace
TrimmedLength(value) ==
    IF value.t = "undefined" THEN 0
    ELSE LET c == value.chars
             solid == {i \in DOMAIN c : c[i] # " " /\ c[i] # "\t"}
             first == CHOOSE i \in solid : \A j \in solid : i <= j
             last == CHOOSE i \in solid : \A j \in solid : i >= j
         IN  IF solid = {} THEN 0 ELSE last - first + 1

IsError(v) == v # JNull

\* C9: name and subject are in error exactly when the trimmed length is below
\* 4, message exactly when it is below 10; so empty and whitespace-only
\* values are errors and the lengths 4 and 10 pass
C9_LengthRules ==
    /\ output.fn \in {"name", "subject"}
          => (IsError(output.value) <=> TrimmedLength(input.value) < 4)
    /\ output.fn = "message"
          => (IsError(output.value) <=> TrimmedLength(input.value) < 10)

\* C9 witness: a message of exactly 10 characters between two spaces passes
C9_Witness ==
    /\ output.fn = "message"
    /\ input.value = JChars(<<" ", "a", "a", "a", "a", "a", "a", "a", "a", "a", "a", " ">>)
    /\ output.value = JNull

\* the shape the claim describes: no whitespace, exactly one '@' with
\* something before it, and after it a '.' with something on each side
EmailShape(value) ==
    /\ value.t = "string"
    /\ LET c == value.chars
           ats == {i \in DOMAIN c : c[i] = "@"}
       IN  /\ \A i \in DOMAIN c : c[i] # " " /\ c[i] # "\t"
           /\ Cardinality(ats) = 1
           /\ LET at == CHOOSE i \in ats : TRUE
              IN  /\ at > 1
                  /\ \E k \in DOMAIN c : c[k] = "." /\ k > at + 1 /\ k < Len(c)

\* C10: the email validator accepts exactly the values of the shape
\* local@domain.tld; it accepts 'a@b.co' and rejects 'a@b', 'a.com' and ''
C10_EmailShape ==
    output.fn = "email"
        => /\ ~IsError(output.value) <=> EmailShape(input.value)
           /\ input.value = JChars(<<"a", "@", "b", ".", "c", "o">>) => ~IsError(output.value)
           /\ input.value \in {JChars(<<"a", "@", "b">>), JChars(<<"a", ".", "c", "o", "m">>),
                               JChars(<<>>)} => IsError(output.value)

\* C10 witness: 'a@b.co' was validated and accepted
C10_Witness ==
    /\ output.fn = "email"
    /\ input.value = JChars(<<"a", "@", "b", ".", "c", "o">>)
    /\ output.value = JNull

----------------------------------------------------------------------------
(* validateForm applied on its own (SpecValidateForm) *)

\* a value per outcome: absent, too short for every rule, long enough for
\* name and subject only, a valid email, long enough for every length rule
SampleValues ==
    { Undefined,
      JChars(<<"a", "b", "c">>),
      JChars(<<" ", "a", "b", "c", "d", " ">>),
      JChars(<<"a", "@", "b", ".", "c", "o">>),
      JChars(<<"a", "b", "c", "d", "e", "f", "g", "h", "i", "j">>) }

InitValidateForm ==
    /\ Constructed
    /\ FormIdle
    /\ storage = JNull
    /\ navigator = [language |-> <<>>, userLanguage |-> <<>>]
    /\ server = [l \in Languages |-> FullDictionary(l)]
    /\ input \in [fn : {"validateForm"}, formData : [FieldNames -> SampleValues]]
    /\ output = NoCall

CallValidateForm ==
    /\ output = NoCall
    /\ output' = [fn |-> "validateForm", value |-> validateForm(input.formData)]
    /\ UNCHANGED <<i18nVars, lastOp, history, formVars, input>>

NextValidateForm == CallValidateForm

SpecValidateForm == InitValidateForm /\ [][NextValidateForm]_vars

\* the fields whose validator returns an error for the record
FailingFields(formData) ==
    {f \in FieldNames : validateField(f, formData[f]) # JNull}

\* C8: isValid is false exactly when some field's validator returns an error,
\* and the error map's keys are exactly the failing fields, each with its
\* validator's message
C8_ValidateForm ==
    output.fn = "validateForm"
        => LET failing == FailingFields(input.formData)
           IN  /\ output.value.isValid = (failing = {})
               /\ DOMAIN output.value.errors = failing
               /\ \A f \in failing :
                     output.value.errors[f] = validateField(f, input.formData[f])

\* C8 witness: a record whose email and message fail while name and subject
\* pass was validated
C8_Witness ==
    /\ output.fn = "validateForm"
    /\ FailingFields(input.formData) = {"email", "message"}
    /\ ~output.value.isValid

----------------------------------------------------------------------------
(* Contact form: the UI object, EmailService and ContactForm.  A handler   *)
(* is a function on the form's record; threw marks a TypeError raised by a *)
(* property access on a missing element, after which the statements that   *)
(* follow in the handler do not run.                                       *)

\* submit events handled in one page session
MaxSubmits == 2

\* the form while a handler runs: sent is the emailjs.send calls of the handler
FormState == form @@ [threw |-> FALSE, sent |-> <<>>]

\* a statement that reads a property of the element el: a TypeError when
\* querySelector returned null for it, else the form becomes g
On(f, el, g) ==
    IF f.threw THEN f
    ELSE IF el \notin env.dom THEN [f EXCEPT !.threw = TRUE]
    ELSE g

\* mutant: the configuration is never found wanting
isConfigured_Always == TRUE

\* EMAIL_CONFIG.isConfigured
isConfigured ==
    /\ env.config.serviceID # "YOUR_SERVICE_ID"
    /\ env.config.templateID # "YOUR_TEMPLATE_ID"
    /\ env.config.publicKey # "YOUR_PUBLIC_KEY"

\* mutant: the submit button stays disabled
hideLoading_KeepDisabled(f) ==
    On(f, "loading", [f EXCEPT !.loading = FALSE])

\* UI.hideLoading
hideLoading(f) ==
    LET f1 == On(f, "loading", [f EXCEPT !.loading = FALSE])
    IN  On(f1, "submitButton", [f1 EXCEPT !.disabled = FALSE])

\* UI.hideAllMessages
hideAllMessages(f) ==
    LET f1 == On(f, "loading", [f EXCEPT !.loading = FALSE])
        f2 == On(f1, "errorMessage", [f1 EXCEPT !.errorMessage.shown = FALSE])
    IN  On(f2, "successMessage", [f2 EXCEPT !.successMessage.shown = FALSE])

\* mutant: the loading indicator is shown and the submit button left enabled
showLoading_NoDisable(f) ==
    LET f1 == hideAllMessages(f)
    IN  On(f1, "loading", [f1 EXCEPT !.loading = TRUE])

\* UI.showLoading
showLoading(f) ==
    LET f1 == hideAllMessages(f)
        f2 == On(f1, "loading", [f1 EXCEPT !.loading = TRUE])
    IN  On(f2, "submitButton", [f2 EXCEPT !.disabled = TRUE])

\* message || fallback, as the text an element shows
TextOr(message, fallback) == IF Truthy(message) THEN ToJSString(message) ELSE fallback

\* delay of the timers that hide a banner, in milliseconds
HideDelay == 5000

\* UI.showSuccess: the timer started is kept with the banner it hides
showSuccess(f, message) ==
    LET f1 == hideLoading(f)
        text == TextOr(message, "Your message has been sent. Thank you!")
        f2 == On(f1, "successMessage",
                 [f1 EXCEPT !.successMessage = [text |-> text, shown |-> TRUE]])
    IN  IF f2.threw THEN f2
        ELSE [f2 EXCEPT !.timers = Append(@, [hides |-> "successMessage", delay |-> HideDelay])]

\* UI.showError
showError(f, message) ==
    LET f1 == hideLoading(f)
        text == TextOr(message, "There was an error. Please try again.")
        f2 == On(f1, "errorMessage",
                 [f1 EXCEPT !.errorMessage = [text |-> text, shown |-> TRUE]])
    IN  IF f2.threw THEN f2
        ELSE [f2 EXCEPT !.timers = Append(@, [hides |-> "errorMessage", delay |-> HideDelay])]

\* UI.showFieldError
showFieldError(f, fieldName, message) ==
    IF f.threw \/ fieldName \notin env.dom \/ ValidateDiv(fieldName) \notin env.dom THEN f
    ELSE [f EXCEPT !.fieldErrors[fieldName] =
                       [text |-> ToJSString(message), shown |-> TRUE, invalid |-> TRUE]]

\* mutant: the inline errors are left as they are
clearFieldErrors_Keep(f) == f

\* UI.clearFieldErrors
clearFieldErrors(f) ==
    IF f.threw THEN f
    ELSE [f EXCEPT !.fieldErrors =
             [n \in FieldNames |->
                 IF n \in env.dom /\ ValidateDiv(n) \in env.dom
                 THEN [text |-> "", shown |-> FALSE, invalid |-> FALSE]
                 ELSE @[n]]]

\* form.reset(): every field back to the value the page gave it
formReset(f) ==
    On(f, "contactForm", [f EXCEPT !.fields = [n \in FieldNames |-> FormParsed.fields[n]]])

\* UI.resetForm
resetForm(f) == hideAllMessages(clearFieldErrors(formReset(f)))

\* EmailService.init
EmailService_init(f) ==
    IF env.emailjs = "undefined" THEN f
    ELSE IF ~isConfigured THEN f
    ELSE IF env.emailjs = "initThrows" THEN f
    ELSE [f EXCEPT !.initialized = TRUE]

\* the arguments of emailjs.send as EmailService.send builds them
SendCall(formData) ==
    [serviceID |-> env.config.serviceID,
     templateID |-> env.config.templateID,
     templateParams |-> [from_name |-> formData["name"].chars,
                         from_email |-> formData["email"].chars,
                         subject |-> formData["subject"].chars,
                         message |-> formData["message"].chars,
                         to_email |-> "contact@endev.us"]]

\* window.i18n ? window.i18n.translate(key) : text
Localized(key, text) ==
    IF env.i18n THEN translate(translations, currentLanguage, key) ELSE JStr(text)

\* the .then callback of handleSubmit
sendThen(f) ==
    LET successMsg == Localized(<<"contact", ".", "success_message">>,
                                "Your message has been sent successfully. Thank you!")
    IN  resetForm(showSuccess(f, successMsg))

\* the .catch callback of handleSubmit
sendCatch(f) ==
    LET errorMsg == Localized(<<"contact", ".", "error_message">>,
                      "There was an error sending your message. Please try again later.")
    IN  showError(f, errorMsg)

\* the promise of EmailService.send resolved: the .then callback, and the
\* .catch callback when that one threw
sendResolved(f) ==
    LET f1 == sendThen(f)
    IN  IF f1.threw THEN sendCatch([f1 EXCEPT !.threw = FALSE]) ELSE f1

\* the promise of EmailService.send rejected
sendRejected(f) == sendCatch(f)

\* EmailService.send, with the callbacks handleSubmit chains on it: rejected
\* at once when initialized is false, else emailjs.send is called
EmailService_send(f, formData) ==
    IF ~f.initialized THEN sendRejected(f)
    ELSE [f EXCEPT !.sends = Append(@, SendCall(formData)),
                   !.sent = Append(@, SendCall(formData))]

RECURSIVE showFieldErrors(_, _, _)
\* Object.keys(validation.errors).forEach(field => UI.showFieldError(...))
showFieldErrors(f, names, errors) ==
    IF names = <<>> THEN f
    ELSE showFieldErrors(
             IF Head(names) \in DOMAIN errors
             THEN showFieldError(f, Head(names), errors[Head(names)])
             ELSE f,
             Tail(names), errors)

\* mutant: the values are taken as typed
FormData_Untrimmed(f) ==
    [n \in FieldNames |-> JChars(IF n \in env.dom THEN f.fields[n] ELSE <<>>)]

\* the formData of handleSubmit: fields[n]?.value?.trim() || ''
FormData(f) ==
    [n \in FieldNames |-> JChars(IF n \in env.dom THEN trim(f.fields[n]) ELSE <<>>)]

\* ContactForm.handleSubmit
handleSubmit(f) ==
    LET f1 == clearFieldErrors([f EXCEPT !.submits = @ + 1])
        formData == FormData(f)
        validation == validateForm(formData)
    IN  IF ~validation.isValid
        THEN showFieldErrors(f1, validatorKeys, validation.errors)
        ELSE IF ~isConfigured
        THEN showError(f1, JStr("Contact form is not configured yet. Please contact the administrator."))
        ELSE LET f2 == showLoading(f1)
             IN  IF f2.threw THEN f2 ELSE EmailService_send(f2, formData)

\* the blur listener of a field
onBlur(f, fieldName) ==
    LET error == validateField(fieldName, JChars(f.fields[fieldName]))
    IN  IF Truthy(error) THEN showFieldError(f, fieldName, error)
        ELSE IF ValidateDiv(fieldName) \in env.dom
        THEN [f EXCEPT !.fieldErrors[fieldName].shown = FALSE,
                       !.fieldErrors[fieldName].invalid = FALSE]
        ELSE f

\* ContactForm.setup
setup(f) ==
    IF "contactForm" \notin env.dom THEN f
    ELSE [EmailService_init(f) EXCEPT !.active = TRUE]

\* the callback of a timer started by showSuccess or showError
timerFired(f) ==
    LET timer == Head(f.timers)
        f1 == [f EXCEPT !.timers = Tail(@)]
    IN  IF timer.hides = "successMessage"
        THEN On(f1, "successMessage", [f1 EXCEPT !.successMessage.shown = FALSE])
        ELSE On(f1, "errorMessage", [f1 EXCEPT !.errorMessage.shown = FALSE])

----------------------------------------------------------------------------
(* The contact form as a state machine (SpecForm): a page with every       *)
(* anchor of the form, under each configuration and each state of the      *)
(* emailjs library                                                         *)

\* the handler op(arg) ran and left the form f
FormBecomes(f, op, arg) ==
    /\ form' = [k \in DOMAIN form |-> f[k]]
    /\ formOp' = [op |-> op, arg |-> arg, threw |-> f.threw, sent |-> f.sent]
    /\ UNCHANGED <<i18nVars, lastOp, history, env, input, output>>

\* what the user types: nothing or a value that passes once trimmed, and
\* for the name a value too short as well
TypedValues(fieldName) ==
    CASE fieldName = "name" -> {<<>>, <<"a", "b", "c">>, <<" ", "a", "b", "c", "d", " ">>}
      [] fieldName = "email" -> {<<>>, <<" ", "a", "@", "b", ".", "c", "o">>}
      [] fieldName = "subject" -> {<<>>, <<"a", "b", "c", "d">>}
      [] fieldName = "message" -> {<<>>, <<"a", "b", "c", "d", "e", "f", "g", "h", "i", "j">>}

\* the fields the user leaves: one with a length rule and the email
BlurFields == {"name", "email"}

\* EMAIL_CONFIG as deployed: the values of the source, or one of them still
\* the placeholder
Configs ==
    { EMAIL_CONFIG,
      [EMAIL_CONFIG EXCEPT !.serviceID = "YOUR_SERVICE_ID"],
      [EMAIL_CONFIG EXCEPT !.templateID = "YOUR_TEMPLATE_ID"],
      [EMAIL_CONFIG EXCEPT !.publicKey = "YOUR_PUBLIC_KEY"] }

\* the emailjs global: not loaded, loaded, or loaded with an init that throws
EmailjsStates == {"undefined", "loaded", "initThrows"}

\* the entries of a translation file the form reads
FormDictionary ==
    JObj([contact |-> JObj([success_message |-> JStr("en:sent"),
                            error_message |-> JStr("en:failed")])])

\* the pages of the form: ContractEnv and what differs from it in one respect
FormEnvs ==
    {[ContractEnv EXCEPT !.config = c] : c \in Configs}
        \cup {[ContractEnv EXCEPT !.emailjs = e] : e \in EmailjsStates}
        \cup {[ContractEnv EXCEPT !.i18n = b] : b \in BOOLEAN}

InitForm ==
    /\ Untouched
    /\ currentLanguage = "en"
    /\ storage = JNull
    /\ navigator = [language |-> <<>>, userLanguage |-> <<>>]
    /\ server = [l \in Languages |-> FullDictionary(l)]
    /\ env \in FormEnvs
    /\ translations = IF env.i18n THEN [l \in {"en"} |-> FormDictionary] ELSE <<>>
    /\ form = FormParsed
    /\ formOp = NoFormOp
    /\ input = NoCall
    /\ output = NoCall

\* DOMContentLoaded (or the script's own run): ContactForm.setup()
Setup ==
    /\ formOp.op = "script"
    /\ FormBecomes(setup(FormState), "setup", "")

\* the user edits a field
Type(fieldName, value) ==
    /\ fieldName \in env.dom
    /\ form.fields[fieldName] # value
    /\ FormBecomes([FormState EXCEPT !.fields[fieldName] = value], "type", "")

\* a field loses the focus: its blur listener runs
Blur(fieldName) ==
    /\ form.active
    /\ fieldName \in env.dom
    /\ FormBecomes(onBlur(FormState, fieldName), "blur", fieldName)

\* a submit event on the form; the browser raises none through a disabled
\* submit button
Submit ==
    /\ form.active
    /\ "submitButton" \in env.dom => ~form.disabled
    /\ form.submits < MaxSubmits
    /\ FormBecomes(handleSubmit(FormState), "submit", "")

\* the promise of the i-th emailjs.send call in flight resolves
SendResolves(i) ==
    /\ i \in DOMAIN form.sends
    /\ FormBecomes(sendResolved([FormState EXCEPT !.sends = SubSeq(@, 1, i - 1) \o SubSeq(@, i + 1, Len(@))]),
                   "sendResolved", "")

\* the promise of the i-th emailjs.send call in flight rejects
SendRejects(i) ==
    /\ i \in DOMAIN form.sends
    /\ FormBecomes(sendRejected([FormState EXCEPT !.sends = SubSeq(@, 1, i - 1) \o SubSeq(@, i + 1, Len(@))]),
                   "sendRejected", "")

\* the oldest timer runs out: all timers have the same delay
TimerFires ==
    /\ form.timers # <<>>
    /\ FormBecomes(timerFired(FormState), "timer", Head(form.timers).hides)

NextForm ==
    \/ Setup
    \/ \E n \in FieldNames : \E v \in TypedValues(n) : Type(n, v)
    \/ \E n \in BlurFields : Blur(n)
    \/ Submit
    \/ \E i \in 1..MaxSubmits : SendResolves(i)
    \/ \E i \in 1..MaxSubmits : SendRejects(i)
    \/ TimerFires

SpecForm == InitForm /\ [][NextForm]_vars

----------------------------------------------------------------------------
(* Properties of the contact form (SpecForm) *)

\* a value without the whitespace at its ends: from its first to its last
\* character that is not whitespace
Stripped(c) ==
    LET solid == {i \in DOMAIN c : c[i] # " " /\ c[i] # "\t"}
        first == CHOOSE i \in solid : \A j \in solid : i <= j
        last == CHOOSE i \in solid : \A j \in solid : i >= j
    IN  IF solid = {} THEN <<>> ELSE SubSeq(c, first, last)

\* the four fields as they stand, stripped
StrippedFields == [n \in FieldNames |-> JChars(Stripped(form.fields[n]))]

\* every field passes its validator once stripped
AllFieldsValid == FailingFields(StrippedFields) = {}

\* the one emailjs.send call a submission of the fields as they stand makes
ExpectedSend ==
    [serviceID |-> env.config.serviceID,
     templateID |-> env.config.templateID,
     templateParams |-> [from_name |-> Stripped(form.fields["name"]),
                         from_email |-> Stripped(form.fields["email"]),
                         subject |-> Stripped(form.fields["subject"]),
                         message |-> Stripped(form.fields["message"]),
                         to_email |-> "contact@endev.us"]]

\* the step is the handling of a submit event
SubmitStep == form'.submits = form.submits + 1

\* the step calls emailjs.send once for the fields as they stand, and with
\* nothing else
SendsOnce ==
    /\ formOp'.sent = <<ExpectedSend>>
    /\ form'.sends = Append(form.sends, ExpectedSend)

\* no step but the handling of a submit event calls emailjs.send
OnlySubmitSends ==
    ~SubmitStep => /\ formOp'.sent = <<>>
                   /\ Len(form'.sends) <= Len(form.sends)

\* C11 as stated: a submit event with all four trimmed fields valid and a
\* configured client makes exactly one emailjs.send call, with the four
\* trimmed values and the recipient contact@endev.us, and no other step
\* makes a call
C11_ConfiguredSendsOnce ==
    [][ /\ (SubmitStep /\ AllFieldsValid /\ isConfigured) => SendsOnce
        /\ OnlySubmitSends ]_vars

\* C11 amended: the same of a client that is configured and was initialized
\* by setup (the emailjs library was loaded and its init did not throw)
C11_InitializedSendsOnce ==
    [][ /\ (SubmitStep /\ AllFieldsValid /\ isConfigured /\ form.initialized) => SendsOnce
        /\ OnlySubmitSends ]_vars

\* C11 witness: a valid form whose name was typed between two spaces was
\* submitted and one call with the stripped name is in flight
C11_Witness ==
    /\ formOp.op = "submit"
    /\ form.fields["name"] = <<" ", "a", "b", "c", "d", " ">>
    /\ Len(formOp.sent) = 1
    /\ formOp.sent[1].templateParams.from_name = <<"a", "b", "c", "d">>
    /\ formOp.sent[1].templateParams.to_email = "contact@endev.us"
    /\ Len(form.sends) = 1

\* no field shows an inline error
NoInlineErrors(f) ==
    \A n \in FieldNames : ~f.fieldErrors[n].shown /\ ~f.fieldErrors[n].invalid

\* C12: when the send resolves, after the success handler the success banner
\* is visible, the submit button is enabled, the fields are back to their
\* page values and no inline error is shown; and the banner is hidden again
\* only by the timer showSuccess started
C12_SuccessBannerStays ==
    [][ /\ formOp'.op = "sendResolved"
            => /\ form'.successMessage.shown
               /\ ~form'.disabled
               /\ form'.fields = FormParsed.fields
               /\ NoInlineErrors(form')
        /\ (form.successMessage.shown /\ ~form'.successMessage.shown)
            => /\ formOp'.op = "timer"
               /\ Head(form.timers).hides = "successMessage" ]_vars

\* C13: a submit event whose stripped fields fail validation calls
\* emailjs.send not at all, leaves exactly the failing fields with their
\* validator's message shown inline, whatever was shown before, shows no
\* loading indicator and leaves the submit button enabled
C13_InvalidSubmit ==
    [][ (SubmitStep /\ ~AllFieldsValid)
            => /\ formOp'.sent = <<>>
               /\ form'.sends = form.sends
               /\ \A n \in FieldNames :
                     LET shown == form'.fieldErrors[n]
                         error == validateField(n, StrippedFields[n])
                     IN  IF n \in FailingFields(StrippedFields)
                         THEN shown = [text |-> error.s, shown |-> TRUE, invalid |-> TRUE]
                         ELSE ~shown.shown /\ ~shown.invalid
               /\ ~form'.loading
               /\ ~form'.disabled ]_vars

\* C13 witness: a second submission failed on the message alone, whose error
\* is the only one shown
C13_Witness ==
    /\ formOp.op = "submit"
    /\ form.submits = 2
    /\ FailingFields(StrippedFields) = {"message"}
    /\ form.fieldErrors["message"].shown
    /\ \A n \in FieldNames \ {"message"} : ~form.fieldErrors[n].shown
    /\ formOp.sent = <<>>
    /\ ~form.loading /\ ~form.disabled

\* one of the three identifiers is still its placeholder
HasPlaceholder ==
    \/ env.config.serviceID = "YOUR_SERVICE_ID"
    \/ env.config.templateID = "YOUR_TEMPLATE_ID"
    \/ env.config.publicKey = "YOUR_PUBLIC_KEY"

\* C14: while an identifier is a placeholder no step calls emailjs.send, and
\* a submit event with valid fields leaves the configuration-error banner
\* shown, the loading indicator hidden and the submit button enabled
C14_UnconfiguredNeverSends ==
    [][ HasPlaceholder
            => /\ formOp'.sent = <<>>
               /\ form'.sends = <<>>
               /\ (SubmitStep /\ AllFieldsValid)
                     => /\ form'.errorMessage =
                              [text |-> "Contact form is not configured yet. Please contact the administrator.",
                               shown |-> TRUE]
                        /\ ~form'.loading
                        /\ ~form'.disabled ]_vars

\* C14 witness: with the template identifier a placeholder, a valid form was
\* submitted and the error banner is shown
C14_Witness ==
    /\ env.config.templateID = "YOUR_TEMPLATE_ID"
    /\ formOp.op = "submit"
    /\ AllFieldsValid
    /\ form.errorMessage.shown
    /\ form.sends = <<>>

\* C15: submit events being raised only while the submit button is enabled,
\* at most one emailjs.send call is in flight, and the submit button is
\* disabled, with the loading indicator shown, exactly while one is
C15_OneSendInFlight ==
    /\ Len(form.sends) <= 1
    /\ form.disabled <=> form.sends # <<>>
    /\ form.loading <=> form.sends # <<>>

\* C15 witness: after a first submission was settled a second one is in
\* flight, the button disabled
C15_Witness ==
    /\ form.submits = 2
    /\ formOp.op = "submit"
    /\ Len(form.sends) = 1
    /\ form.disabled
    /\ form.timers # <<>>

\* no send is in flight, the loading indicator is hidden and the submit
\* button enabled
Idle(f) == f.sends = <<>> /\ ~f.loading /\ ~f.disabled

\* C16: the form leaves idle only by a submit event that calls emailjs.send,
\* which shows the loading indicator and disables the button; the step in
\* which that call settles brings it back to idle and calls emailjs.send no
\* more; when the call fails, or was refused for want of an initialized
\* client, the error banner is shown and the four field values are as they
\* were
C16_SettleReturnsToIdle ==
    [][ /\ (Idle(form) /\ ~Idle(form'))
            => /\ SubmitStep
               /\ Len(form'.sends) = 1 /\ form'.loading /\ form'.disabled
        /\ ~Idle(form)
            => \/ UNCHANGED <<form.sends, form.loading, form.disabled>>
               \/ /\ formOp'.op \in {"sendResolved", "sendRejected"}
                  /\ Idle(form')
                  /\ formOp'.sent = <<>>
        /\ (formOp'.op = "sendRejected"
              \/ (SubmitStep /\ AllFieldsValid /\ isConfigured /\ ~form.initialized))
            => /\ Idle(form')
               /\ form'.errorMessage.shown
               /\ form'.fields = form.fields ]_vars

\* C16 witness: a call was in flight and failed; the form is idle again with
\* the error banner shown and the valid values still in the fields
C16_Witness ==
    /\ formOp.op = "sendRejected"
    /\ Idle(form)
    /\ form.errorMessage.shown
    /\ AllFieldsValid

\* the timers still to run that hide the element el
TimersFor(timers, el) == SelectSeq(timers, LAMBDA t : t.hides = el)

\* C21: an error banner that is shown is hidden only by the start of a new
\* submission or by the timer armed when it was shown: the timer that hides
\* it is the last one armed for the error banner, none armed later is still
\* to run
C21_ErrorBannerFullDelay ==
    [][ (form.errorMessage.shown /\ ~form'.errorMessage.shown)
            => \/ SubmitStep
               \/ /\ formOp'.op = "timer"
                  /\ Head(form.timers).hides = "errorMessage"
                  /\ Len(TimersFor(form.timers, "errorMessage")) = 1 ]_vars

\* C22: the blur listener of a field leaves the field's inline error shown
\* exactly when a submit event with the fields as they stand would report an
\* error for that field
C22_BlurAgreesWithSubmit ==
    [][ formOp'.op = "blur"
            => LET n == formOp'.arg
               IN  form'.fieldErrors[n].shown
                       <=> n \in DOMAIN validateForm(FormData(form)).errors ]_vars

----------------------------------------------------------------------------
(* The contact form on pages that lack anchors (SpecAnchors) *)

\* the anchors a page has: all of them, all but one, or none
DomChoices == {Anchors, {}} \cup {Anchors \ {a} : a \in Anchors}

InitAnchors ==
    /\ Untouched
    /\ currentLanguage = "en"
    /\ translations = <<>>
    /\ storage = JNull
    /\ navigator = [language |-> <<>>, userLanguage |-> <<>>]
    /\ server = [l \in Languages |-> FullDictionary(l)]
    /\ env \in {[ContractEnv EXCEPT !.dom = d] : d \in DomChoices}
    /\ form = FormParsed
    /\ formOp = NoFormOp
    /\ input = NoCall
    /\ output = NoCall

SpecAnchors == InitAnchors /\ [][NextForm]_vars

\* C17: whatever anchors the page lacks, no handler of the form raises an
\* exception
C17_NoHandlerThrows == ~formOp.threw

====
